---------------------------- MODULE Spec2Model ----------------------------
(***************************************************************************)
(* Model of the extraction-and-validation pipeline of src/app.py:          *)
(* build_prompt, extract_json, fallback_extract, apply_iec_rules and       *)
(* validate_cable_design.                                                  *)
(*                                                                         *)
(* Text is modelled as a sequence of tokens (one token = one lexeme of the *)
(* text: a brace, a quoted key with its colon, a scalar, a number, a unit, *)
(* a word).  The text is its tokens separated by single spaces, which      *)
(* every regular expression of the source allows between its parts.        *)
(* Numbers of the cable text are kept in tenths (0.6 -> 6, 3.6 -> 36),     *)
(* confidences in thousandths (0.35 -> 350).                               *)
(***************************************************************************)
EXTENDS Integers, Sequences, FiniteSets, TLC

VARIABLES
    pc,              \* position of the request
    user_input,      \* the text typed by the user
    completion,      \* the text the oracle generates for the prompt
    raw_response,    \* llm(prompt)[0]["generated_text"]
    ai_parsed,       \* extract_json(raw_response)
    fields,          \* the chosen field set
    rule_validation, \* findings of apply_iec_rules(fields)
    result           \* the returned ValidationResult

vars == <<pc, user_input, completion, raw_response, ai_parsed, fields,
          rule_validation, result>>

-----------------------------------------------------------------------------
(* Tokens of structured (JSON) text *)

LB == "{"
RB == "}"
LBRACKET == "["
RBRACKET == "]"
COMMA == ","
\* the fence markers: three backquotes followed by json, and three backquotes
FenceJson == "fence-json"
Fence == "fence"
Word == "w"

\* a quoted key followed by its colon; "other:" stands for any other key
FieldKeys == {"standard:", "voltage_kv:", "conductor_material:",
              "conductor_class:", "csa_mm2:", "insulation_material:",
              "insulation_thickness_mm:"}

Keys == {"fields:", "validation:", "reasoning:", "confidence:", "overall:",
         "status:", "other:"} \cup FieldKeys

\* JSON numbers that occur in the modelled completions
JsonNumbers == {"0.0", "0.5", "0.9", "1.5"}

\* scalar JSON values: null, numbers, and strings ("str" is any other
\* non-empty string)
Scalars == {"null", "str", "FAIL", "IEC 60502-1"} \cup JsonNumbers

\* the value of an absent key
Absent == <<>>

EmptyObj == [k \in Keys |-> Absent]

\* None, as returned by extract_json
None == [none |-> TRUE, obj |-> EmptyObj]

Some(o) == [none |-> FALSE, obj |-> o]

-----------------------------------------------------------------------------
(* json.loads on a token sequence.  A value is kept as the token sequence  *)
(* that writes it; an object as the function from its keys to their values *)
(* (the last occurrence of a duplicated key wins, as in Python).           *)

RECURSIVE ValueEnd(_, _), ElemsEnd(_, _), MembersEnd(_, _)

\* index just after the JSON value that starts at b[i], 0 when there is none
ValueEnd(b, i) ==
    IF i > Len(b) THEN 0
    ELSE IF b[i] \in Scalars THEN i + 1
    ELSE IF b[i] = LBRACKET
         THEN IF i + 1 <= Len(b) /\ b[i + 1] = RBRACKET THEN i + 2
              ELSE ElemsEnd(b, i + 1)
    ELSE IF b[i] = LB
         THEN IF i + 1 <= Len(b) /\ b[i + 1] = RB THEN i + 2
              ELSE MembersEnd(b, i + 1)
    ELSE 0

\* index just after the "]" closing the elements that start at b[i]
ElemsEnd(b, i) ==
    LET j == ValueEnd(b, i)
    IN  IF j = 0 \/ j > Len(b) THEN 0
        ELSE IF b[j] = RBRACKET THEN j + 1
        ELSE IF b[j] = COMMA THEN ElemsEnd(b, j + 1)
        ELSE 0

\* index just after the "}" closing the members that start at b[i]
MembersEnd(b, i) ==
    IF i > Len(b) \/ b[i] \notin Keys THEN 0
    ELSE LET j == ValueEnd(b, i + 1)
         IN  IF j = 0 \/ j > Len(b) THEN 0
             ELSE IF b[j] = RB THEN j + 1
             ELSE IF b[j] = COMMA THEN MembersEnd(b, j + 1)
             ELSE 0

\* does the whole of b write one JSON object? (json.loads raises otherwise;
\* a block always starts with "{", so a parsed block is always a dict)
json_valid(b) == Len(b) >= 2 /\ b[1] = LB /\ ValueEnd(b, 1) = Len(b) + 1

RECURSIVE TopMembers(_, _, _)
\* the members of the valid object b from b[i] on, added to acc
TopMembers(b, i, acc) ==
    IF b[i] = RB THEN acc
    ELSE LET j == ValueEnd(b, i + 1)
             acc2 == [acc EXCEPT ![b[i]] = SubSeq(b, i + 1, j - 1)]
         IN  IF b[j] = COMMA THEN TopMembers(b, j + 1, acc2) ELSE acc2

json_loads(b) == TopMembers(b, 2, EmptyObj)

-----------------------------------------------------------------------------
(* extract_json *)

\* str.replace(s, ""): every occurrence of the token s removed
Remove(text, s) == SelectSeq(text, LAMBDA x : x # s)

RECURSIVE IndexFrom(_, _, _)
\* least index >= i of text holding token s, 0 when there is none
IndexFrom(text, s, i) ==
    IF i > Len(text) THEN 0
    ELSE IF text[i] = s THEN i
    ELSE IndexFrom(text, s, i + 1)

RECURSIVE re_findall_blocks(_, _)
\* re.findall(r"\{[\s\S]*?\}", text) from index i on: the leftmost "{", the
\* nearest "}" after it, and then the same from behind that "}"
re_findall_blocks(text, i) ==
    LET s == IndexFrom(text, LB, i)
        e == IF s = 0 THEN 0 ELSE IndexFrom(text, RB, s + 1)
    IN  IF s = 0 \/ e = 0 THEN <<>>
        ELSE <<SubSeq(text, s, e)>> \o re_findall_blocks(text, e + 1)

\* the test of one block: it parses and has a "fields" or "validation" key
Accepted(b) ==
    /\ json_valid(b)
    /\ \/ json_loads(b)["fields:"] # Absent
       \/ json_loads(b)["validation:"] # Absent

RECURSIVE ScanForwardFrom(_, _)
ScanForwardFrom(blocks, i) ==
    IF i > Len(blocks) THEN None
    ELSE IF Accepted(blocks[i]) THEN Some(json_loads(blocks[i]))
    ELSE ScanForwardFrom(blocks, i + 1)

\* mutant: the blocks tried from the first to the last
ScanForward(blocks, i) == ScanForwardFrom(blocks, 1)

RECURSIVE ScanReversed(_, _)
\* for b in reversed(blocks): the first accepted block, from index i down
ScanReversed(blocks, i) ==
    IF i = 0 THEN None
    ELSE IF Accepted(blocks[i]) THEN Some(json_loads(blocks[i]))
    ELSE ScanReversed(blocks, i - 1)

strip_fences(text) == Remove(Remove(text, FenceJson), Fence)

extract_json(text) ==
    LET blocks == re_findall_blocks(strip_fences(text), 1)
    IN  ScanReversed(blocks, Len(blocks))

-----------------------------------------------------------------------------
(* Field values.  A value carries its Python type: None, a number (float   *)
(* or int, in tenths), a string, or anything else (a list, an object); a   *)
(* key that the dict lacks is "missing".                                   *)

Null == [t |-> "null", n |-> 0, s |-> ""]
Num(x) == [t |-> "num", n |-> x, s |-> ""]
Str(x) == [t |-> "str", n |-> 0, s |-> x]
Other == [t |-> "other", n |-> 0, s |-> ""]
Missing == [t |-> "missing", n |-> 0, s |-> ""]

\* the value bound to fields when it is not a dict
NotDict ==
    [isdict |-> FALSE, standard |-> Missing, voltage_kv |-> Missing,
     conductor_material |-> Missing, conductor_class |-> Missing,
     csa_mm2 |-> Missing, insulation_material |-> Missing,
     insulation_thickness_mm |-> Missing]

\* fields = {"standard": None, ...}
AllNull ==
    [isdict |-> TRUE, standard |-> Null, voltage_kv |-> Null,
     conductor_material |-> Null, conductor_class |-> Null,
     csa_mm2 |-> Null, insulation_material |-> Null,
     insulation_thickness_mm |-> Null]

LVStandard == "IEC 60502-1"
AmbiguousStandard == "IEC 60502 (ambiguous - specify part)"

-----------------------------------------------------------------------------
(* Tokens of the cable description *)

\* the numbers that occur in the modelled descriptions
NumToks == {"0.5", "0.6", "1", "2", "3.6", "6", "10"}

\* float(m.group(k)), in tenths
to_float(tok) ==
    CASE tok = "0.5" -> 5
      [] tok = "0.6" -> 6
      [] tok = "1" -> 10
      [] tok = "2" -> 20
      [] tok = "3.6" -> 36
      [] tok = "6" -> 60
      [] tok = "10" -> 100

\* "Class " followed by the leading digits of the number (class\s*(\d+))
class_name(tok) ==
    CASE tok = "0.5" -> "Class 0"
      [] tok = "0.6" -> "Class 0"
      [] tok = "1" -> "Class 1"
      [] tok = "2" -> "Class 2"
      [] tok = "3.6" -> "Class 3"
      [] tok = "6" -> "Class 6"
      [] tok = "10" -> "Class 10"

\* text.lower(), token by token
lower_tok(tok) ==
    CASE tok = "kV" -> "kv"
      [] tok = "IEC 60502-1" -> "iec 60502-1"
      [] tok = "IEC 60502-2" -> "iec 60502-2"
      [] tok = "Cu" -> "cu"
      [] tok = "Cu," -> "cu,"
      [] tok = "Al" -> "al"
      [] tok = "Al," -> "al,"
      [] tok = "Class" -> "class"
      [] tok = "PVC" -> "pvc"
      [] tok = "XLPE" -> "xlpe"
      [] tok = "EPR" -> "epr"
      [] OTHER -> tok

lower(text) == [i \in 1..Len(text) |-> lower_tok(text[i])]

\* lower-cased tokens in which the pattern named occurs as a substring
HasLVStandard == {"iec 60502-1", "iec60502-1"}
HasStandardFamily == {"iec 60502-1", "iec 60502-2"}
StartsWithKv == {"kv"}
StartsWithMm == {"mm", "mm2", "mm^2"}      \* mm^2 writes the superscript two
AreaUnits == {"sqmm", "mm2", "mm^2"}
HasInsulationKeyword == {"insulation", "t_i", "ti"}  \* t_i: subscript i
HasCopper == {"copper"}
StartsWithCu == {"cu", "cu,"}          \* " cu": behind a space
HasCuComma == {"cu,"}
HasAluminium == {"aluminium", "aluminum"}
StartsWithAl == {"al", "al,", "aluminium", "aluminum"}   \* " al"
HasAlComma == {"al,"}

\* the text that (\d+\.?\d*) matches at the end of a token: a pattern that
\* goes on behind the number in the next token matches the number that
\* ends this one, the whole of a number, the last digits of a designator
\* or of the unit mm2
num_tail(tok) ==
    CASE tok \in NumToks -> tok
      [] tok \in {"iec 60502-1", "iec60502-1"} -> "1"
      [] tok \in {"iec 60502-2", "mm2"} -> "2"

EndsWithNumber == NumToks \cup {"iec 60502-1", "iec60502-1", "iec 60502-2",
                                "mm2"}

Contains(t, S) == \E i \in 1..Len(t) : t[i] \in S

RECURSIVE SearchPair(_, _, _)
\* re.search of a number followed by a token of S, from index i on: the
\* index of the number of the leftmost match, 0 when there is none
SearchPair(t, S, i) ==
    IF i + 1 > Len(t) THEN 0
    ELSE IF t[i] \in EndsWithNumber /\ t[i + 1] \in S THEN i
    ELSE SearchPair(t, S, i + 1)

RECURSIVE SearchDual(_, _)
\* re.search(r"(\d+\.?\d*)\s*/\s*(\d+\.?\d*)\s*kv", t) from index i on:
\* the index of the first number of the leftmost match, 0 when none
SearchDual(t, i) ==
    IF i + 3 > Len(t) THEN 0
    ELSE IF /\ t[i] \in EndsWithNumber /\ t[i + 1] = "/"
            /\ t[i + 2] \in NumToks /\ t[i + 3] \in StartsWithKv
         THEN i
    ELSE SearchDual(t, i + 1)

RECURSIVE SearchToken(_, _, _)
\* least index >= i of t holding a token of S, 0 when there is none
SearchToken(t, S, i) ==
    IF i > Len(t) THEN 0
    ELSE IF t[i] \in S THEN i
    ELSE SearchToken(t, S, i + 1)

RECURSIVE CountPairs(_, _, _)
\* len(re.findall(r"(\d+\.?\d*)\s*mm", t)) from index i on; a match ends
\* inside the token of the unit, whose last digits may start the next match
CountPairs(t, S, i) ==
    LET j == SearchPair(t, S, i)
    IN  IF j = 0 THEN 0 ELSE 1 + CountPairs(t, S, j + 1)

-----------------------------------------------------------------------------
(* fallback_extract *)

extract_standard(t) ==
    IF Contains(t, HasLVStandard) THEN Str(LVStandard)
    ELSE IF Contains(t, HasStandardFamily) THEN Str(AmbiguousStandard)
    ELSE Null

\* mutant: the first number of the dual rating taken
extract_voltage_first(t) ==
    LET m == SearchDual(t, 1)
    IN  IF m # 0 THEN Num(to_float(num_tail(t[m])))
        ELSE LET m2 == SearchPair(t, StartsWithKv, 1)
             IN  IF m2 # 0 THEN Num(to_float(num_tail(t[m2]))) ELSE Null

extract_voltage(t) ==
    LET m == SearchDual(t, 1)
    IN  IF m # 0 THEN Num(to_float(t[m + 2]))
        ELSE LET m2 == SearchPair(t, StartsWithKv, 1)
             IN  IF m2 # 0 THEN Num(to_float(num_tail(t[m2]))) ELSE Null

extract_csa(t) ==
    LET m == SearchPair(t, AreaUnits, 1)
    IN  IF m # 0 THEN Num(to_float(num_tail(t[m]))) ELSE Null

extract_thickness(t) ==
    LET k == SearchToken(t, HasInsulationKeyword, 1)
        m == IF k = 0 THEN 0 ELSE SearchPair(t, StartsWithMm, k + 1)
    IN  IF m # 0 THEN Num(to_float(num_tail(t[m])))
        ELSE IF CountPairs(t, StartsWithMm, 1) = 1
             THEN Num(to_float(num_tail(t[SearchPair(t, StartsWithMm, 1)])))
        ELSE Null

\* a token of S that is not the first of the text, so that a space is in
\* front of it
ContainsBehindSpace(t, S) == \E i \in 2..Len(t) : t[i] \in S

extract_conductor_material(t) ==
    IF \/ Contains(t, HasCopper) \/ ContainsBehindSpace(t, StartsWithCu)
       \/ Contains(t, HasCuComma)
    THEN Str("Cu")
    ELSE IF \/ Contains(t, HasAluminium)
            \/ ContainsBehindSpace(t, StartsWithAl)
            \/ Contains(t, HasAlComma)
         THEN Str("Al")
    ELSE Null

RECURSIVE SearchClass(_, _)
\* re.search(r"class\s*(\d+)", t) from index i on: the index of the number
SearchClass(t, i) ==
    IF i + 1 > Len(t) THEN 0
    ELSE IF t[i] = "class" /\ t[i + 1] \in NumToks THEN i + 1
    ELSE SearchClass(t, i + 1)

extract_conductor_class(t) ==
    LET m == SearchClass(t, 1)
    IN  IF m # 0 THEN Str(class_name(t[m])) ELSE Null

extract_insulation_material(t) ==
    IF Contains(t, {"pvc"}) THEN Str("PVC")
    ELSE IF Contains(t, {"xlpe", "cross-linked"}) THEN Str("XLPE")
    ELSE IF Contains(t, {"epr"}) THEN Str("EPR")
    ELSE Null

fallback_extract(text) ==
    LET t == lower(text)
    IN  [isdict |-> TRUE,
         standard |-> extract_standard(t),
         voltage_kv |-> extract_voltage(t),
         conductor_material |-> extract_conductor_material(t),
         conductor_class |-> extract_conductor_class(t),
         csa_mm2 |-> extract_csa(t),
         insulation_material |-> extract_insulation_material(t),
         insulation_thickness_mm |-> extract_thickness(t)]

-----------------------------------------------------------------------------
(* apply_iec_rules *)

VoltageLimit == 10       \* 1.0 kV, in tenths
ThicknessFloor == 6      \* 0.6 mm, in tenths
FullConfidence == 1000   \* 1.0, in thousandths
FailPenalty == 350       \* 0.35
WarnPenalty == 150       \* 0.15
DefaultAiConfidence == 500   \* 0.5

Finding(f, st) == [field |-> f, status |-> st]

\* the comparisons of a rule raise TypeError on a value that is neither
\* None nor a number; reading a key the dict lacks raises KeyError
Comparable(v) == v.t \in {"null", "num"}

rules_raise(f) ==
    \/ ~f.isdict
    \/ \E v \in {f.standard, f.voltage_kv, f.conductor_material,
                 f.conductor_class, f.csa_mm2, f.insulation_material,
                 f.insulation_thickness_mm} : v.t = "missing"
    \/ ~Comparable(f.voltage_kv)
    \/ ~Comparable(f.insulation_thickness_mm)

rule_standard(f) ==
    IF f.standard # Str(LVStandard)
    THEN <<Finding("standard", "FAIL")>> ELSE <<>>

rule_voltage(f) ==
    IF f.voltage_kv.t = "null" THEN <<Finding("voltage_kv", "WARN")>>
    ELSE IF f.voltage_kv.n > VoltageLimit
         THEN <<Finding("voltage_kv", "FAIL")>>
    ELSE <<>>

rule_not_null(f, name, v) ==
    IF v.t = "null" THEN <<Finding(name, "WARN")>> ELSE <<>>

\* mutant: the floor itself rejected (<= for <)
rule_thickness_le(f) ==
    IF f.insulation_thickness_mm.t = "null"
    THEN <<Finding("insulation_thickness_mm", "WARN")>>
    ELSE IF f.insulation_thickness_mm.n <= ThicknessFloor
         THEN <<Finding("insulation_thickness_mm", "FAIL")>>
    ELSE <<>>

rule_thickness(f) ==
    IF f.insulation_thickness_mm.t = "null"
    THEN <<Finding("insulation_thickness_mm", "WARN")>>
    ELSE IF f.insulation_thickness_mm.n < ThicknessFloor
         THEN <<Finding("insulation_thickness_mm", "FAIL")>>
    ELSE <<>>

rule_findings(f) ==
    rule_standard(f) \o rule_voltage(f)
    \o rule_not_null(f, "conductor_material", f.conductor_material)
    \o rule_not_null(f, "conductor_class", f.conductor_class)
    \o rule_not_null(f, "csa_mm2", f.csa_mm2)
    \o rule_not_null(f, "insulation_material", f.insulation_material)
    \o rule_thickness(f)

any_status(validation, st) ==
    \E i \in 1..Len(validation) : validation[i].status = st

\* mutant: WARN tested before FAIL
overall_of_warn_first(validation) ==
    IF any_status(validation, "WARN") THEN "WARN"
    ELSE IF any_status(validation, "FAIL") THEN "FAIL"
    ELSE "PASS"

\* mutant: the WARN branch forgotten
overall_of_no_warn(validation) ==
    IF any_status(validation, "FAIL") THEN "FAIL" ELSE "PASS"

overall_of(validation) ==
    IF any_status(validation, "FAIL") THEN "FAIL"
    ELSE IF any_status(validation, "WARN") THEN "WARN"
    ELSE "PASS"

RECURSIVE subtract_penalties(_, _, _)
\* for v in validation: confidence -= 0.35 or 0.15
subtract_penalties(validation, i, confidence) ==
    IF i > Len(validation) THEN confidence
    ELSE subtract_penalties(validation, i + 1,
            IF validation[i].status = "FAIL" THEN confidence - FailPenalty
            ELSE IF validation[i].status = "WARN"
                 THEN confidence - WarnPenalty
            ELSE confidence)

py_max(a, b) == IF a >= b THEN a ELSE b
py_min(a, b) == IF a <= b THEN a ELSE b

\* round(x, 2) of x >= 0 in thousandths: to the nearest hundredth, a tie
\* to the even one
round2(x) ==
    LET q == x \div 10
        r == x % 10
    IN  IF r < 5 THEN q * 10
        ELSE IF r > 5 THEN (q + 1) * 10
        ELSE IF q % 2 = 0 THEN q * 10 ELSE (q + 1) * 10

\* mutant: the clamp at 0 forgotten
confidence_unclamped(validation) ==
    round2(subtract_penalties(validation, 1, FullConfidence))

confidence_of(validation) ==
    round2(py_max(subtract_penalties(validation, 1, FullConfidence), 0))

\* (validation, overall, confidence), or the error that escapes
apply_iec_rules(f) ==
    IF rules_raise(f)
    THEN [raised |-> TRUE, validation |-> <<>>, overall |-> "",
          confidence |-> 0]
    ELSE [raised |-> FALSE,
          validation |-> rule_findings(f),
          overall |-> overall_of(rule_findings(f)),
          confidence |-> confidence_of(rule_findings(f))]

-----------------------------------------------------------------------------
(* build_prompt *)

\* the instructions and the JSON STRUCTURE of the prompt, up to the line
\* CABLE DESIGN INPUT:
PromptHead ==
    <<Word,
      LB, "fields:",
          LB, "standard:", "null", COMMA, "voltage_kv:", "null", COMMA,
              "conductor_material:", "null", COMMA,
              "conductor_class:", "null", COMMA, "csa_mm2:", "null", COMMA,
              "insulation_material:", "null", COMMA,
              "insulation_thickness_mm:", "null", RB, COMMA,
          "validation:", LBRACKET,
              LB, "other:", "str", COMMA, "status:", "str", COMMA,
                  "other:", "str", COMMA, "other:", "str", COMMA,
                  "other:", "str", RB, RBRACKET, COMMA,
          "reasoning:", "str", COMMA,
          "confidence:", LB, "overall:", "0.0", COMMA, "other:", "str", RB,
      RB,
      Word>>

\* the line VALIDATION OUTPUT (JSON only):
PromptTail == <<Word>>

build_prompt(text) == PromptHead \o text \o PromptTail

-----------------------------------------------------------------------------
(* validate_cable_design *)

\* a JSON number as a field value, in tenths
json_tenths(tok) ==
    CASE tok = "0.0" -> 0
      [] tok = "0.5" -> 5
      [] tok = "0.9" -> 9
      [] tok = "1.5" -> 15

\* a JSON number as a confidence, in thousandths
json_thousandths(tok) ==
    CASE tok = "0.0" -> 0
      [] tok = "0.5" -> DefaultAiConfidence
      [] tok = "0.9" -> 900
      [] tok = "1.5" -> 1500

\* the Python value of the JSON value v, as a field of the field set
field_value(v) ==
    IF v = Absent THEN Missing
    ELSE IF v = <<"null">> THEN Null
    ELSE IF Len(v) = 1 /\ v[1] \in JsonNumbers THEN Num(json_tenths(v[1]))
    ELSE IF Len(v) = 1 THEN Str(v[1])
    ELSE Other

\* fields = ai_parsed["fields"], whatever JSON value that is
json_fields(v) ==
    IF v[1] # LB THEN NotDict
    ELSE LET o == json_loads(v)
         IN  [isdict |-> TRUE,
              standard |-> field_value(o["standard:"]),
              voltage_kv |-> field_value(o["voltage_kv:"]),
              conductor_material |-> field_value(o["conductor_material:"]),
              conductor_class |-> field_value(o["conductor_class:"]),
              csa_mm2 |-> field_value(o["csa_mm2:"]),
              insulation_material |-> field_value(o["insulation_material:"]),
              insulation_thickness_mm |->
                  field_value(o["insulation_thickness_mm:"])]

\* the truth value of a JSON value (an absent "validation" defaults to [])
truthy(v) ==
    v \notin {Absent, <<"null">>, <<"0.0">>, <<LBRACKET, RBRACKET>>,
              <<LB, RB>>}

\* {"overall": 0.5, ...}, the confidence of the fallback branch
FallbackConfidence == <<LB, "overall:", "0.5", RB>>

\* ai_confidence.get("overall", 0.5): raises unless ai_confidence is a dict
\* (an absent "confidence" defaults to {})
get_overall_raises(c) == c # Absent /\ c[1] # LB

get_overall(c) ==
    IF c = Absent THEN <<"0.5">>
    ELSE IF json_loads(c)["overall:"] = Absent THEN <<"0.5">>
    ELSE json_loads(c)["overall:"]

\* min(a, rule_confidence) raises unless a is a number
IsNumber(v) == Len(v) = 1 /\ v[1] \in JsonNumbers

number_of(v) == json_thousandths(v[1])

\* mutant: the confidence of the oracle taken as it is
final_confidence_ai(ai, rule) == ai

final_confidence(ai, rule) == py_min(ai, rule)

\* combined_validation = ai_validation if ai_validation else rule_validation
combined_validation(ai_validation, rule_val) ==
    IF truthy(ai_validation)
    THEN [oracle |-> TRUE, findings |-> <<>>, json |-> ai_validation]
    ELSE [oracle |-> FALSE, findings |-> rule_val, json |-> <<>>]

NoResult ==
    [fields |-> NotDict,
     validation |-> [oracle |-> FALSE, findings |-> <<>>, json |-> <<>>],
     overall_status |-> "",
     ai_reasoning |-> <<>>,
     confidence |-> [overall |-> 0, ai_confidence |-> 0,
                     rule_confidence |-> 0]]

\* everything validate_cable_design computes from the user input and the
\* text the oracle returned; raised when an error escapes it
validate_cable_design(text, raw) ==
    LET parsed == CHOOSE p \in {extract_json(raw)} : TRUE
        use_ai == ~parsed.none /\ parsed.obj["fields:"] # Absent
        flds == IF use_ai THEN json_fields(parsed.obj["fields:"])
                ELSE fallback_extract(text)
        ai_validation == IF use_ai THEN parsed.obj["validation:"] ELSE Absent
        ai_reasoning == IF ~use_ai THEN <<"Fallback extraction used">>
                        ELSE IF parsed.obj["reasoning:"] = Absent
                             THEN <<"AI reasoning not provided">>
                        ELSE parsed.obj["reasoning:"]
        ai_confidence == IF use_ai THEN parsed.obj["confidence:"]
                         ELSE FallbackConfidence
        rules == CHOOSE r \in {apply_iec_rules(flds)} : TRUE
        raised == \/ rules.raised
                  \/ get_overall_raises(ai_confidence)
                  \/ ~IsNumber(get_overall(ai_confidence))
    IN  [raised |-> raised,
         ai_parsed |-> parsed,
         fields |-> flds,
         rule_validation |-> rules.validation,
         result |->
            IF raised THEN NoResult
            ELSE [fields |-> flds,
                  validation |->
                      combined_validation(ai_validation, rules.validation),
                  overall_status |-> rules.overall,
                  ai_reasoning |-> ai_reasoning,
                  confidence |->
                     [overall |->
                          final_confidence(
                              number_of(get_overall(ai_confidence)),
                              rules.confidence),
                      ai_confidence |->
                          number_of(get_overall(ai_confidence)),
                      rule_confidence |-> rules.confidence]]]

-----------------------------------------------------------------------------
(* Texts.  A text grows chunk by chunk (a line typed by the user, a piece  *)
(* generated by the oracle); the text is the chunks joined.                *)

RECURSIVE Join(_)
Join(chunks) ==
    IF chunks = <<>> THEN <<>> ELSE Head(chunks) \o Join(Tail(chunks))

\* the example description: IEC 60502-1, 0.6/1 kV, Cu, Class 1, 10 mm^2,
\* PVC, t_i = 1 mm
FullDescription ==
    <<"IEC 60502-1", "0.6", "/", "1", "kV", "Cu", "Class", "1", "10",
      "mm^2", "PVC", "t_i", "1", "mm">>

\* a completion of the schema the prompt asks for
SchemaCompletion ==
    <<LB, "fields:",
          LB, "standard:", "IEC 60502-1", COMMA, "voltage_kv:", "0.9", COMMA,
              "conductor_material:", "str", COMMA,
              "conductor_class:", "str", COMMA, "csa_mm2:", "1.5", COMMA,
              "insulation_material:", "str", COMMA,
              "insulation_thickness_mm:", "0.9", RB, COMMA,
          "validation:", LBRACKET, LB, "status:", "FAIL", RB, RBRACKET,
          COMMA,
          "confidence:", LB, "overall:", "0.9", RB,
      RB>>

MaxInputChunks == 2
MaxOracleChunks == 2
MaxParserChunks == 5
MaxFallbackChunks == 3
MaxTenths == 11

\* what the user may type in a request
InputChunks ==
    {<<"IEC 60502-1">>, <<"1", "kV">>, <<"3.6", "/", "6", "kV">>,
     FullDescription, <<LB, "fields:", "null", RB>>, <<LB>>}

\* what the oracle may generate
OracleChunks ==
    {<<LB, "fields:", "null", RB>>,
     <<LB, "validation:", LBRACKET, "FAIL", RBRACKET, RB>>,
     <<LB, "fields:", "str", COMMA, "confidence:", "0.9", RB>>,
     SchemaCompletion, <<RB>>, <<Word>>}

\* the pieces of the raw completions given to extract_json alone
ParserChunks ==
    {<<LB>>, <<RB>>, <<COMMA>>, <<Word>>, <<Fence>>, <<"fields:">>,
     <<"fields:", "null">>,
     <<"validation:", LBRACKET, "str", RBRACKET>>,
     <<LB, "fields:", "str", RB>>}

\* the pieces of the descriptions given to fallback_extract alone
FallbackChunks ==
    {<<"IEC 60502-1">>, <<"3.6", "/", "6", "kV">>, <<"0.6", "/", "1", "kV">>,
     <<"1", "kV">>, <<"6">>, <<"/">>, <<"kV">>, <<Word>>,
     <<"10", "mm2">>, <<"1", "mm">>, <<"insulation">>, <<"mm">>}

Blank ==
    /\ user_input = <<>>
    /\ completion = <<>>
    /\ raw_response = <<>>
    /\ ai_parsed = None
    /\ fields = NotDict
    /\ rule_validation = <<>>
    /\ result = NoResult

-----------------------------------------------------------------------------
(* The request: the user types the description, validate_cable_design      *)
(* builds the prompt and calls the oracle, the oracle generates its        *)
(* completion and returns it, with or without the prompt in front, and     *)
(* validate_cable_design runs to its return or to the error that escapes.  *)

Init == pc = "input" /\ Blank

TypeInput(chunk) ==
    /\ pc = "input"
    /\ Len(user_input) < MaxInputChunks
    /\ user_input' = Append(user_input, chunk)
    /\ UNCHANGED <<pc, completion, raw_response, ai_parsed, fields,
                   rule_validation, result>>

CallOracle ==
    /\ pc = "input"
    /\ pc' = "oracle"
    /\ UNCHANGED <<user_input, completion, raw_response, ai_parsed, fields,
                   rule_validation, result>>

OracleEmit(chunk) ==
    /\ pc = "oracle"
    /\ Len(completion) < MaxOracleChunks
    /\ completion' = Append(completion, chunk)
    /\ UNCHANGED <<pc, user_input, raw_response, ai_parsed, fields,
                   rule_validation, result>>

ReturnFromOracle(echo) ==
    /\ pc = "oracle"
    /\ \E raw \in {IF echo
                    THEN build_prompt(Join(user_input)) \o Join(completion)
                    ELSE Join(completion)} :
       \E v \in {validate_cable_design(Join(user_input), raw)} :
           /\ raw_response' = raw
           /\ ai_parsed' = v.ai_parsed
           /\ fields' = v.fields
           /\ rule_validation' = v.rule_validation
           /\ result' = v.result
           /\ pc' = IF v.raised THEN "raised" ELSE "done"
    /\ UNCHANGED <<user_input, completion>>

Next ==
    \/ \E chunk \in InputChunks : TypeInput(chunk)
    \/ CallOracle
    \/ \E chunk \in OracleChunks : OracleEmit(chunk)
    \/ \E echo \in BOOLEAN : ReturnFromOracle(echo)

Spec == Init /\ [][Next]_vars

-----------------------------------------------------------------------------
(* extract_json alone, on every raw completion of the bound *)

InitParser == pc = "parser_text" /\ Blank

ParserEmit(chunk) ==
    /\ pc = "parser_text"
    /\ Len(completion) < MaxParserChunks
    /\ completion' = Append(completion, chunk)
    /\ UNCHANGED <<pc, user_input, raw_response, ai_parsed, fields,
                   rule_validation, result>>

ParserRun ==
    /\ pc = "parser_text"
    /\ raw_response' = Join(completion)
    /\ ai_parsed' = extract_json(Join(completion))
    /\ pc' = "parser_done"
    /\ UNCHANGED <<user_input, completion, fields, rule_validation, result>>

NextParser ==
    \/ \E chunk \in ParserChunks : ParserEmit(chunk)
    \/ ParserRun

SpecParser == InitParser /\ [][NextParser]_vars

-----------------------------------------------------------------------------
(* fallback_extract followed by apply_iec_rules, on every description of   *)
(* the bound                                                               *)

InitFallback == pc = "fallback_text" /\ Blank

\* the part of the result that the rule engine decides
rules_result(f) ==
    [NoResult EXCEPT
        !.fields = f,
        !.overall_status = apply_iec_rules(f).overall,
        !.confidence.rule_confidence = apply_iec_rules(f).confidence]

FallbackType(chunk) ==
    /\ pc = "fallback_text"
    /\ Len(user_input) < MaxFallbackChunks
    /\ user_input' = Append(user_input, chunk)
    /\ UNCHANGED <<pc, completion, raw_response, ai_parsed, fields,
                   rule_validation, result>>

FallbackRun ==
    /\ pc = "fallback_text"
    /\ LET f == fallback_extract(Join(user_input))
       IN  /\ fields' = f
           /\ rule_validation' = apply_iec_rules(f).validation
           /\ result' = rules_result(f)
    /\ pc' = "fallback_done"
    /\ UNCHANGED <<user_input, completion, raw_response, ai_parsed>>

NextFallback ==
    \/ \E chunk \in FallbackChunks : FallbackType(chunk)
    \/ FallbackRun

SpecFallback == InitFallback /\ [][NextFallback]_vars

-----------------------------------------------------------------------------
(* apply_iec_rules alone, on every field set of the bound *)

TextValues(x) == {Null, Str(x)}
NumValues == {Null} \cup {Num(n) : n \in 0..MaxTenths}

FieldSets ==
    [isdict : {TRUE},
     standard : {Null, Str(LVStandard), Str(AmbiguousStandard)},
     voltage_kv : NumValues,
     conductor_material : TextValues("Cu"),
     conductor_class : TextValues("Class 2"),
     csa_mm2 : {Null, Num(100)},
     insulation_material : TextValues("PVC"),
     insulation_thickness_mm : NumValues]

InitRules ==
    /\ pc = "rules_input"
    /\ user_input = <<>>
    /\ completion = <<>>
    /\ raw_response = <<>>
    /\ ai_parsed = None
    /\ fields \in FieldSets
    /\ rule_validation = <<>>
    /\ result = NoResult

RulesRun ==
    /\ pc = "rules_input"
    /\ rule_validation' = apply_iec_rules(fields).validation
    /\ result' = rules_result(fields)
    /\ pc' = "rules_done"
    /\ UNCHANGED <<user_input, completion, raw_response, ai_parsed, fields>>

NextRules == RulesRun

SpecRules == InitRules /\ [][NextRules]_vars

-----------------------------------------------------------------------------
(* Properties *)

returned == pc = "done"

\* the status that a list of findings calls for: FAIL before WARN before PASS
StatusOf(hasFail, hasWarn) ==
    IF hasFail THEN "FAIL" ELSE IF hasWarn THEN "WARN" ELSE "PASS"

\* does the validation list of a result hold a finding of status st?  A
\* finding of an oracle-supplied list is an object with a "status" key.
ListHasStatus(val, st) ==
    IF val.oracle
    THEN \E i \in 1..(Len(val.json) - 1) :
            val.json[i] = "status:" /\ val.json[i + 1] = st
    ELSE \E i \in 1..Len(val.findings) : val.findings[i].status = st

\* C1: in every returned ValidationResult, overall_status is FAIL if a
\* finding of the validation list of that result is FAIL, else WARN if one
\* is WARN, else PASS.
C1_StatusFromResultList ==
    returned =>
        result.overall_status =
            StatusOf(ListHasStatus(result.validation, "FAIL"),
                     ListHasStatus(result.validation, "WARN"))

\* a result with findings, returned although the oracle supplied a parsed
\* object with a findings list of its own
C1_Witness ==
    /\ returned
    /\ ~ai_parsed.none
    /\ ai_parsed.obj["validation:"] # Absent
    /\ result.overall_status = "WARN"

\* C2: once the prompt is built, validate_cable_design always returns a
\* ValidationResult: no error escapes it.
C2_NoErrorEscapes == pc # "raised"

\* C3: in every returned ValidationResult, confidence.overall lies in [0, 1].
C3_ConfidenceInUnitInterval ==
    returned =>
        /\ result.confidence.overall >= 0
        /\ result.confidence.overall <= FullConfidence

\* a returned result whose penalties sum to more than 1
C3_Witness ==
    /\ returned
    /\ subtract_penalties(rule_validation, 1, FullConfidence) < 0
    /\ result.confidence.overall = 0

\* C4: extract_json applied to a clean single-block serialization of an
\* object with a "fields" or a "validation" key returns that object.
C4_RoundTrip ==
    (/\ pc = "parser_done"
     /\ json_valid(raw_response)
     /\ \/ json_loads(raw_response)["fields:"] # Absent
        \/ json_loads(raw_response)["validation:"] # Absent)
    => ai_parsed = Some(json_loads(raw_response))

\* the inputs that the echoed prompt is varied over
AltInputs == {<<>>} \cup InputChunks

echoed == raw_response = build_prompt(Join(user_input)) \o Join(completion)

\* C5: when the oracle echoes the prompt, the parsed object is decided by
\* the completion alone: the same completion behind the prompt of any other
\* user input gives the same parsed object.
C5_CompletionOnly ==
    (pc \in {"done", "raised"} /\ echoed) =>
        \A u \in AltInputs :
            extract_json(build_prompt(u) \o Join(completion)) = ai_parsed

\* the confidence the oracle declared in the parsed object, 0.5 when the
\* fallback branch is taken or none was declared
DeclaredConfidence ==
    IF ai_parsed.none \/ ai_parsed.obj["fields:"] = Absent
    THEN DefaultAiConfidence
    ELSE IF ai_parsed.obj["confidence:"] = Absent THEN DefaultAiConfidence
    ELSE IF json_loads(ai_parsed.obj["confidence:"])["overall:"] = Absent
         THEN DefaultAiConfidence
    ELSE json_thousandths(
            json_loads(ai_parsed.obj["confidence:"])["overall:"][1])

\* C6: in every returned ValidationResult, confidence.overall is the lesser
\* of ai_confidence and rule_confidence, where rule_confidence is that of
\* the rule engine on the field set of the result and ai_confidence is the
\* confidence the oracle declared (0.5 by default).
C6_OverallIsMin ==
    returned =>
        LET c == result.confidence
        IN  /\ c.overall <= c.ai_confidence
            /\ c.overall <= c.rule_confidence
            /\ c.overall \in {c.ai_confidence, c.rule_confidence}
            /\ c.rule_confidence = apply_iec_rules(result.fields).confidence
            /\ c.ai_confidence = DeclaredConfidence

\* a returned result in which the rule engine is the more sceptical source
C6_Witness ==
    /\ returned
    /\ result.confidence.rule_confidence > 0
    /\ result.confidence.rule_confidence < result.confidence.ai_confidence

\* the field set step 3 chooses
ChosenFields ==
    IF ~ai_parsed.none /\ ai_parsed.obj["fields:"] # Absent
    THEN json_fields(ai_parsed.obj["fields:"])
    ELSE fallback_extract(Join(user_input))

\* C7: the overall_status of every returned ValidationResult is that of the
\* findings of the rule engine on the chosen field set, whichever list of
\* findings the result shows.
C7_StatusFromRules ==
    returned =>
        /\ result.fields = ChosenFields
        /\ rule_validation = rule_findings(result.fields)
        /\ result.overall_status =
              StatusOf(\E i \in 1..Len(rule_validation) :
                           rule_validation[i].status = "FAIL",
                       \E i \in 1..Len(rule_validation) :
                           rule_validation[i].status = "WARN")

\* a result returned PASS while the parsed object of the oracle carries a
\* findings list with a FAIL
C7_Witness ==
    /\ returned
    /\ ~ai_parsed.none
    /\ ai_parsed.obj["validation:"] = <<LBRACKET, "FAIL", RBRACKET>>
    /\ result.overall_status = "PASS"

CountStatus(validation, st) ==
    Cardinality({i \in 1..Len(validation) : validation[i].status = st})

NoNullAttribute(f) ==
    \A v \in {f.standard, f.voltage_kv, f.conductor_material,
              f.conductor_class, f.csa_mm2, f.insulation_material,
              f.insulation_thickness_mm} : v.t # "null"

\* C8: the confidence of the rule engine is max(1.00 - 0.35 F - 0.15 W, 0)
\* to two decimals and lies in [0, 1]; the all-null field set gives 1 FAIL
\* (standard) and 6 WARN, confidence 0.00 and FAIL; a field set with the
\* exact LV designator, voltage <= 1.0, thickness >= 0.6 and no null
\* attribute gives no finding, confidence 1.00 and PASS.
C8_RuleConfidence ==
    pc = "rules_done" =>
        LET c == result.confidence.rule_confidence
            x == 1000 - 350 * CountStatus(rule_validation, "FAIL")
                      - 150 * CountStatus(rule_validation, "WARN")
        IN  /\ c = (IF x < 0 THEN 0 ELSE x)
            /\ c % 10 = 0
            /\ c >= 0 /\ c <= 1000
            /\ fields = AllNull =>
                  /\ Len(rule_validation) = 7
                  /\ {rule_validation[i] : i \in 1..7} =
                        {Finding("standard", "FAIL"),
                         Finding("voltage_kv", "WARN"),
                         Finding("conductor_material", "WARN"),
                         Finding("conductor_class", "WARN"),
                         Finding("csa_mm2", "WARN"),
                         Finding("insulation_material", "WARN"),
                         Finding("insulation_thickness_mm", "WARN")}
                  /\ c = 0
                  /\ result.overall_status = "FAIL"
            /\ (/\ fields.standard = Str("IEC 60502-1")
                /\ NoNullAttribute(fields)
                /\ fields.voltage_kv.n <= 10
                /\ fields.insulation_thickness_mm.n >= 6) =>
                  /\ rule_validation = <<>>
                  /\ c = 1000
                  /\ result.overall_status = "PASS"

\* the rule engine has run on a complete field set whose thickness is the
\* floor itself and whose voltage is the limit itself
C8_Witness ==
    /\ pc = "rules_done"
    /\ NoNullAttribute(fields)
    /\ fields.standard = Str("IEC 60502-1")
    /\ fields.voltage_kv.n = 10
    /\ fields.insulation_thickness_mm.n = 6
    /\ result.overall_status = "PASS"

\* a block of the scan of re.findall: from the first "{" behind the
\* previous "}" (or the start of the text) to the nearest "}" behind it
IsScanBlock(t, s, e) ==
    /\ s < e /\ t[s] = LB /\ t[e] = RB
    /\ \A j \in (s + 1)..(e - 1) : t[j] # RB
    /\ \A j \in 1..(s - 1) :
          t[j] = LB => \E k \in (j + 1)..(s - 1) : t[k] = RB

\* any substring from a "{" to the nearest "}" behind it
IsCandidate(t, s, e) ==
    /\ s < e /\ t[s] = LB /\ t[e] = RB
    /\ \A j \in (s + 1)..(e - 1) : t[j] # RB

\* the parsed content of the last block (in text order) among those that
\* IsBlock admits, parse and have a "fields" or "validation" key
LastQualifying(t, IsBlock(_, _, _)) ==
    LET Q == {q \in (1..Len(t)) \X (1..Len(t)) :
                 IsBlock(t, q[1], q[2]) /\ Accepted(SubSeq(t, q[1], q[2]))}
    IN  IF Q = {} THEN None
        ELSE LET last == CHOOSE q \in Q : \A r \in Q : r[1] <= q[1]
             IN  Some(json_loads(SubSeq(t, last[1], last[2])))

\* C9 (as stated): extract_json returns the parsed content of the last
\* candidate block, a substring from a "{" to the nearest following "}",
\* that parses and has a "fields" or "validation" key, none if there is none.
C9_LastCandidate ==
    pc = "parser_done" =>
        ai_parsed = LastQualifying(strip_fences(raw_response), IsCandidate)

\* C9 (amended): the candidates are the blocks of the left-to-right scan of
\* the text without its fence markers, which do not overlap: each runs from
\* the first "{" behind the previous block to the nearest following "}".
C9_LastScanBlock ==
    pc = "parser_done" =>
        ai_parsed = LastQualifying(strip_fences(raw_response), IsScanBlock)

\* two blocks and more, the first of which does not qualify while a later
\* one does and is returned
C9_Witness ==
    /\ pc = "parser_done"
    /\ ~ai_parsed.none
    /\ LET t == strip_fences(raw_response)
       IN  \E s1, e1, s2, e2 \in 1..Len(t) :
              /\ e1 < s2
              /\ IsScanBlock(t, s1, e1) /\ ~Accepted(SubSeq(t, s1, e1))
              /\ IsScanBlock(t, s2, e2) /\ Accepted(SubSeq(t, s2, e2))

\* an occurrence of "X/Y kV" in the text (X may be the digits that end a
\* longer token), and of "X kV"
IsDualAt(t, i) ==
    /\ i + 3 <= Len(t)
    /\ t[i] \in EndsWithNumber /\ t[i + 1] = "/"
    /\ t[i + 2] \in NumToks /\ t[i + 3] = "kv"

IsBareAt(t, i) ==
    i + 1 <= Len(t) /\ t[i] \in EndsWithNumber /\ t[i + 1] = "kv"

Leftmost(t, At(_, _), i) == At(t, i) /\ \A j \in 1..(i - 1) : ~At(t, j)

VoltageFindings == SelectSeq(rule_validation, LAMBDA v : v.field = "voltage_kv")

\* what C10 says of the bare rating, of the absent voltage and of the rules
C10_Rest(t) ==
    /\ (\A i \in 1..Len(t) : ~IsDualAt(t, i)) =>
          /\ \A i \in 1..Len(t) :
                Leftmost(t, IsBareAt, i) =>
                    fields.voltage_kv = Num(to_float(num_tail(t[i])))
          /\ (\A i \in 1..Len(t) : ~IsBareAt(t, i)) =>
                fields.voltage_kv = Null
    /\ fields.voltage_kv = Num(10) => VoltageFindings = <<>>

\* C10 (as stated): whenever the input contains a dual rating X/Y kV, the
\* extracted voltage is its second number Y; so an input that names the LV
\* standard and contains 3.6/6 kV yields 6.0, one FAIL on the voltage rule
\* and FAIL overall.
C10_EveryDual ==
    pc = "fallback_done" =>
        LET t == lower(Join(user_input))
        IN  /\ \A i \in 1..Len(t) :
                  IsDualAt(t, i) =>
                      fields.voltage_kv = Num(to_float(t[i + 2]))
            /\ (/\ Contains(t, {"iec 60502-1"})
                /\ \E i \in 1..Len(t) :
                      IsDualAt(t, i) /\ t[i] = "3.6" /\ t[i + 2] = "6") =>
                  /\ fields.voltage_kv = Num(60)
                  /\ VoltageFindings = <<Finding("voltage_kv", "FAIL")>>
                  /\ result.overall_status = "FAIL"
            /\ C10_Rest(t)

\* C10 (amended): the extracted voltage is the second number of the first
\* (leftmost) dual rating of the input, whatever bare rating occurs before
\* or after it; without a dual rating it is the first bare rating, else
\* null.  An input that names the LV standard and whose first dual rating
\* is 3.6/6 kV yields 6.0, one FAIL on the voltage rule and FAIL overall; a
\* voltage of exactly 1.0 yields no voltage finding.
C10_FirstDual ==
    pc = "fallback_done" =>
        LET t == lower(Join(user_input))
        IN  /\ \A i \in 1..Len(t) :
                  Leftmost(t, IsDualAt, i) =>
                      fields.voltage_kv = Num(to_float(t[i + 2]))
            /\ (/\ Contains(t, {"iec 60502-1"})
                /\ \E i \in 1..Len(t) :
                      Leftmost(t, IsDualAt, i)
                      /\ t[i] = "3.6" /\ t[i + 2] = "6") =>
                  /\ fields.voltage_kv = Num(60)
                  /\ VoltageFindings = <<Finding("voltage_kv", "FAIL")>>
                  /\ result.overall_status = "FAIL"
            /\ C10_Rest(t)

\* the LV standard named, a bare rating of another value in front of the
\* dual rating 3.6/6 kV, and the voltage extracted is 6.0
C10_Witness ==
    /\ pc = "fallback_done"
    /\ LET t == lower(Join(user_input))
       IN  /\ Contains(t, {"iec 60502-1"})
           /\ \E i, j \in 1..Len(t) :
                 /\ j < i /\ IsBareAt(t, j) /\ t[j] # "6"
                 /\ Leftmost(t, IsDualAt, i) /\ t[i + 2] = "6"
    /\ fields.voltage_kv = Num(60)
    /\ result.overall_status = "FAIL"

-----------------------------------------------------------------------------
\* a JSON value that is a list with an element at least
NonEmptyList(v) == Len(v) > 2 /\ v[1] = LBRACKET /\ v[Len(v)] = RBRACKET

\* the parsed object carries a non-empty "validation" list
OracleSuppliedList ==
    ~ai_parsed.none /\ NonEmptyList(ai_parsed.obj["validation:"])

\* C11: whenever the parsed object carries a non-empty "validation" list,
\* the validation list of the returned ValidationResult is that list, also
\* when the object has no "fields" key and the fields come from the
\* fallback extractor; in every other case it is the list of findings of
\* the rule engine on the chosen field set.
C11_ValidationSource ==
    returned =>
        IF OracleSuppliedList
        THEN result.validation =
                [oracle |-> TRUE, findings |-> <<>>,
                 json |-> ai_parsed.obj["validation:"]]
        ELSE result.validation =
                [oracle |-> FALSE, findings |-> rule_findings(ChosenFields),
                 json |-> <<>>]

-----------------------------------------------------------------------------
\* an occurrence of a bare "N mm" in the text: a number in front of the
\* unit mm itself, not of an area unit
IsBareMmAt(t, i) ==
    i + 1 <= Len(t) /\ t[i] \in NumToks /\ t[i + 1] = "mm"

BareMmOccurrences(t) == {i \in 1..Len(t) : IsBareMmAt(t, i)}

\* an insulation keyword stands somewhere in front of a number
KeywordPrecedesNumber(t) ==
    \E i, j \in 1..Len(t) :
        i < j /\ t[i] \in HasInsulationKeyword /\ t[j] \in NumToks

\* C12: when no insulation keyword precedes a number, the thickness that
\* fallback_extract assigns is the number of the one bare "N mm" occurrence
\* of the input when there is exactly one, and null otherwise; a number in
\* front of an area unit (10 mm2) is the area and no bare occurrence, so an
\* input whose only millimetre quantity is the area yields a null thickness.
C12_ThicknessNotArea ==
    pc = "fallback_done" =>
        LET t == lower(Join(user_input))
        IN  ~KeywordPrecedesNumber(t) =>
               IF Cardinality(BareMmOccurrences(t)) = 1
               THEN \A i \in BareMmOccurrences(t) :
                       fields.insulation_thickness_mm = Num(to_float(t[i]))
               ELSE fields.insulation_thickness_mm = Null

=============================================================================
